---- MODULE Spec2Model ----
(***************************************************************************)
(* Model of ArXivMetadataExtractor (iSearch_metadata_extraction.py): the   *)
(* pure helpers (identifier resolver, URL normalizer, license classifier)  *)
(* and the sequential pipeline driver run() / process_documents() with its *)
(* buffered, checkpointed appends to the CSV ledger.                       *)
(*                                                                         *)
(* Python strings are TLA+ strings; an Optional[str] is the empty tuple    *)
(* (None) or a one-element tuple holding the string.                       *)
(***************************************************************************)
EXTENDS Integers, Sequences, FiniteSets, TLC

(***************************************************************************)
(* Configuration constants of the class.                                   *)
(***************************************************************************)
DOC_ID_COLUMN == 0
ABSTRACT_URL_COLUMN == 3
START_DOC_ID == 60987
END_DOC_ID == 61041

CSV_COLUMNS ==
    <<"doc_id", "abs_url", "license_url", "license_name", "version",
      "title", "authors", "comments", "subjects", "journal_ref", "related_doi">>

(***************************************************************************)
(* Bounds of the model.                                                    *)
(***************************************************************************)
MaxRows == 2
MaxInterval == 2
MaxRuns == 2

(***************************************************************************)
(* Optional values and string helpers.                                     *)
(***************************************************************************)
None == <<>>
Some(s) == <<s>>

Digits == {"0", "1", "2", "3", "4", "5", "6", "7", "8", "9"}
Lower == {"a", "b", "c", "d", "e", "f", "g", "h", "i", "j", "k", "l", "m",
          "n", "o", "p", "q", "r", "s", "t", "u", "v", "w", "x", "y", "z"}
Whitespace == {" ", "\t", "\n", "\r"}

\* s[i:i+1] with 1-based i: the empty string outside the string
CharAt(s, i) == IF i \in 1..Len(s) THEN SubSeq(s, i, i) ELSE ""
From(s, i) == SubSeq(s, i, Len(s))
StartsAt(s, i, p) == i + Len(p) - 1 <= Len(s) /\ SubSeq(s, i, i + Len(p) - 1) = p
StartsWith(s, p) == StartsAt(s, 1, p)
Contains(s, p) == \E i \in 1..Len(s) : StartsAt(s, i, p)

\* str.strip(): drop leading and trailing whitespace
RECURSIVE LStrip(_)
LStrip(s) ==
    IF Len(s) > 0 /\ CharAt(s, 1) \in Whitespace THEN LStrip(From(s, 2)) ELSE s
RECURSIVE RStrip(_)
RStrip(s) ==
    IF Len(s) > 0 /\ CharAt(s, Len(s)) \in Whitespace
    THEN RStrip(SubSeq(s, 1, Len(s) - 1)) ELSE s
Strip(s) == RStrip(LStrip(s))

\* str.replace(old, ''): remove the non-overlapping occurrences, left to right
RECURSIVE Remove(_, _)
Remove(s, old) ==
    IF Len(s) < Len(old) THEN s
    ELSE IF StartsWith(s, old) THEN Remove(From(s, Len(old) + 1), old)
    ELSE CharAt(s, 1) \o Remove(From(s, 2), old)

\* end (exclusive) of the longest run of characters of class cls starting at i
RECURSIVE RunEnd(_, _, _)
RunEnd(s, i, cls) ==
    IF i <= Len(s) /\ CharAt(s, i) \in cls THEN RunEnd(s, i + 1, cls) ELSE i

DigitVal(c) == CHOOSE d \in 0..9 : CharAt("0123456789", d + 1) = c
RECURSIVE DigitsToNat(_)
DigitsToNat(s) ==
    IF Len(s) = 0 THEN 0
    ELSE 10 * DigitsToNat(SubSeq(s, 1, Len(s) - 1)) + DigitVal(CharAt(s, Len(s)))

AllDigits(s) == Len(s) > 0 /\ \A i \in 1..Len(s) : CharAt(s, i) \in Digits

(***************************************************************************)
(* int(s) for the literals the identifier column can hold: an optional     *)
(* sign followed by decimal digits; anything else is a ValueError (None).  *)
(***************************************************************************)
PyInt(s) ==
    IF AllDigits(s) THEN Some(DigitsToNat(s))
    ELSE IF Len(s) > 1 /\ CharAt(s, 1) = "+" /\ AllDigits(From(s, 2))
         THEN Some(DigitsToNat(From(s, 2)))
    ELSE IF Len(s) > 1 /\ CharAt(s, 1) = "-" /\ AllDigits(From(s, 2))
         THEN Some(0 - DigitsToNat(From(s, 2)))
    ELSE None

\* re.findall(r'\d+', s)[-1]: the last maximal digit run, None if there is none
LastDigitRun(s) ==
    IF \A i \in 1..Len(s) : CharAt(s, i) \notin Digits THEN None
    ELSE LET e == CHOOSE i \in 1..Len(s) :
                      /\ CharAt(s, i) \in Digits
                      /\ \A j \in (i + 1)..Len(s) : CharAt(s, j) \notin Digits
             b == CHOOSE i \in 1..e :
                      /\ \A j \in i..e : CharAt(s, j) \in Digits
                      /\ (i = 1 \/ CharAt(s, i - 1) \notin Digits)
         IN Some(SubSeq(s, b, e))

extract_numeric_id(doc_id) ==
    LET prefixed == IF StartsWith(doc_id, "PN0") /\ Len(doc_id) > 3
                    THEN PyInt(From(doc_id, 4)) ELSE None
        direct == PyInt(doc_id)
        run == LastDigitRun(doc_id)
    IN IF prefixed # None THEN prefixed
       ELSE IF direct # None THEN direct
       ELSE IF run # None THEN Some(DigitsToNat(run[1]))
       ELSE None

(***************************************************************************)
(* normalize_arxiv_url.  The paper-id group [\d\.]+[a-z]*(?:v\d+)? is      *)
(* matched greedily: the digit/dot run, then the lowercase run; the        *)
(* optional version suffix can only start with a lowercase "v", which the  *)
(* greedy lowercase run has already consumed, so it always matches empty.  *)
(***************************************************************************)
PaperIdEnd(s, i) == RunEnd(s, RunEnd(s, i, Digits \cup {"."}), Lower)

\* re.search of "<prefix>([\d\.]+[a-z]*(?:v\d+)?)" for the given literal
\* prefixes: the group of the leftmost match, None without a match
SearchPaperId(s, prefixes) ==
    LET hit(i) == \E p \in prefixes :
                      /\ StartsAt(s, i, p)
                      /\ i + Len(p) <= Len(s)
                      /\ CharAt(s, i + Len(p)) \in Digits \cup {"."}
    IN IF \A i \in 1..Len(s) : ~hit(i) THEN None
       ELSE LET i == CHOOSE k \in 1..Len(s) : hit(k) /\ \A j \in 1..(k - 1) : ~hit(j)
                p == CHOOSE q \in prefixes :
                         /\ StartsAt(s, i, q)
                         /\ i + Len(q) <= Len(s)
                         /\ CharAt(s, i + Len(q)) \in Digits \cup {"."}
            IN Some(SubSeq(s, i + Len(p), PaperIdEnd(s, i + Len(p)) - 1))

normalize_arxiv_url(url) ==
    IF url = "" THEN None
    ELSE LET u == Strip(Remove(url, ".pdf"))
             m1 == SearchPaperId(u, {"arxiv.org/abs/", "arxiv.org/pdf/"})
             m2 == SearchPaperId(u, {"arxiv.org/"})
         IN IF m1 # None THEN Some("https://arxiv.org/abs/" \o m1[1])
            ELSE IF m2 # None THEN Some("https://arxiv.org/abs/" \o m2[1])
            ELSE None

(***************************************************************************)
(* map_license and its table, in declaration order.                        *)
(***************************************************************************)
LICENSE_MAPPINGS ==
    << <<"creativecommons.org/licenses/by/4.0", "CC BY 4.0">>,
       <<"creativecommons.org/licenses/by-sa/4.0", "CC BY-SA 4.0">>,
       <<"creativecommons.org/licenses/by-nc-sa/4.0", "CC BY-NC-SA 4.0">>,
       <<"creativecommons.org/licenses/by-nc-nd/4.0", "CC BY-NC-ND 4.0">>,
       <<"arxiv.org/licenses/nonexclusive-distrib/1.0", "arXiv Non-exclusive">>,
       <<"arxiv.org/licenses/assumed-1991-2003", "arXiv Assumed (1991-2003)">> >>

UpperAlphabet == "ABCDEFGHIJKLMNOPQRSTUVWXYZ"
LowerAlphabet == "abcdefghijklmnopqrstuvwxyz"
LowerChar(c) ==
    IF \E k \in 1..26 : CharAt(UpperAlphabet, k) = c
    THEN CharAt(LowerAlphabet, CHOOSE k \in 1..26 : CharAt(UpperAlphabet, k) = c)
    ELSE c
RECURSIVE ToLower(_)
ToLower(s) == IF Len(s) = 0 THEN s ELSE LowerChar(CharAt(s, 1)) \o ToLower(From(s, 2))

\* mutant: the URL is matched as given, without lower-casing
map_license_case_sensitive(license_url) ==
    IF license_url = None \/ license_url = Some("") THEN "Unknown"
    ELSE LET u == Strip(license_url[1])
             hits == {k \in 1..Len(LICENSE_MAPPINGS) : Contains(u, LICENSE_MAPPINGS[k][1])}
         IN IF hits = {} THEN "Other/Unmapped"
            ELSE LICENSE_MAPPINGS[CHOOSE k \in hits : \A j \in hits : k <= j][2]

map_license(license_url) ==
    IF license_url = None \/ license_url = Some("") THEN "Unknown"
    ELSE LET u == Strip(ToLower(license_url[1]))
             hits == {k \in 1..Len(LICENSE_MAPPINGS) : Contains(u, LICENSE_MAPPINGS[k][1])}
         IN IF hits = {} THEN "Other/Unmapped"
            ELSE LICENSE_MAPPINGS[CHOOSE k \in hits : \A j \in hits : k <= j][2]

(***************************************************************************)
(* extract_metadata.  A response body is modelled by what the HTML parser  *)
(* finds in it: the record fields are the results of the soup queries the  *)
(* extractors make (None when the element is absent); `empty` tells        *)
(* whether response.text is the empty string.                              *)
(***************************************************************************)
_normalize_url(url) ==
    IF StartsWith(url, "//") THEN "https:" \o url
    ELSE IF StartsWith(url, "/") THEN "https://arxiv.org" \o url
    ELSE url

_extract_license_url(page) ==
    LET lic == {k \in 1..Len(page.links) : Contains(page.links[k], "/licenses/")}
    IN IF page.rel_license # None /\ page.rel_license # Some("")
       THEN Some(_normalize_url(page.rel_license[1]))
       ELSE IF lic # {}
       THEN Some(_normalize_url(page.links[CHOOSE k \in lic : \A j \in lic : k <= j]))
       ELSE None

\* re.findall(r'\[v(\d+)\]', text): the digit groups, left to right
RECURSIVE VersionMarkers(_, _)
VersionMarkers(text, i) ==
    IF i > Len(text) THEN <<>>
    ELSE LET e == RunEnd(text, i + 2, Digits)
         IN IF StartsAt(text, i, "[v") /\ e > i + 2 /\ CharAt(text, e) = "]"
            THEN <<SubSeq(text, i + 2, e - 1)>> \o VersionMarkers(text, e + 1)
            ELSE VersionMarkers(text, i + 1)

\* max(versions, key=int): the first element of greatest integer value
MaxByInt(versions) ==
    versions[CHOOSE k \in 1..Len(versions) :
        /\ \A j \in 1..Len(versions) : DigitsToNat(versions[j]) <= DigitsToNat(versions[k])
        /\ \A j \in 1..(k - 1) : DigitsToNat(versions[j]) < DigitsToNat(versions[k])]

\* re.search(r'v(\d+)', text): the digit group of the leftmost match
SearchVersion(text) ==
    LET hit(i) == CharAt(text, i) = "v" /\ i < Len(text) /\ CharAt(text, i + 1) \in Digits
    IN IF \A i \in 1..Len(text) : ~hit(i) THEN None
       ELSE LET i == CHOOSE k \in 1..Len(text) : hit(k) /\ \A j \in 1..(k - 1) : ~hit(j)
            IN Some(SubSeq(text, i + 1, RunEnd(text, i + 1, Digits) - 1))

_extract_version(page) ==
    LET versions == IF page.history = None THEN <<>> ELSE VersionMarkers(page.history[1], 1)
        meta == IF page.og_url = None \/ page.og_url = Some("") THEN None
                ELSE SearchVersion(page.og_url[1])
    IN IF versions # <<>> THEN "v" \o MaxByInt(versions)
       ELSE IF meta # None THEN "v" \o meta[1]
       ELSE ""

_extract_title(page) ==
    IF page.title = None THEN ""
    ELSE LET title == Strip(page.title[1])
         IN IF StartsWith(ToLower(title), "title:") THEN Strip(From(title, 7)) ELSE title

RECURSIVE JoinComma(_)
JoinComma(names) ==
    IF names = <<>> THEN ""
    ELSE IF Len(names) = 1 THEN names[1]
    ELSE names[1] \o ", " \o JoinComma(Tail(names))

_extract_authors(page) ==
    IF page.authors = None THEN "" ELSE JoinComma(page.authors[1])

\* comments, subjects and journal reference: the cell's text, "" without a cell
CellText(cell) == IF cell = None THEN "" ELSE Strip(cell[1])

_extract_doi(page) ==
    IF page.doi = None THEN ""
    ELSE IF page.doi[1] = None THEN "" ELSE Strip(page.doi[1][1])

extract_metadata(page) ==
    [license_url |-> _extract_license_url(page),
     version     |-> _extract_version(page),
     title       |-> _extract_title(page),
     authors     |-> _extract_authors(page),
     comments    |-> CellText(page.comments),
     subjects    |-> CellText(page.subjects),
     journal_ref |-> CellText(page.jref),
     related_doi |-> _extract_doi(page)]

(***************************************************************************)
(* Result rows: 11-tuples in CSV_COLUMNS order.                            *)
(***************************************************************************)
create_result_row(doc_id, abs_url, metadata) ==
    <<doc_id, abs_url,
      metadata.license_url, map_license(metadata.license_url), metadata.version,
      metadata.title, metadata.authors, metadata.comments,
      metadata.subjects, metadata.journal_ref, metadata.related_doi>>

\* mutant: the empty row without the "Unknown" sentinel
_create_empty_result_no_sentinel(doc_id, abs_url) ==
    <<doc_id, abs_url, None, "", "", "", "", "", "", "", "">>

_create_empty_result(doc_id, abs_url) ==
    <<doc_id, abs_url, None, "Unknown", "", "", "", "", "", "", "">>

(***************************************************************************)
(* The environment: source-list rows, responses of the abstract-page host, *)
(* and outcomes of the file writes.                                        *)
(***************************************************************************)
\* rows of the tab-delimited source list, as csv.reader yields them
SourceRows ==
    { <<"PN0060987", "", "", "http://example.org/paper.html ">>,
      <<" 60988", "", "", "https://arxiv.org/pdf/2301.12345v2.pdf">>,
      <<"PN0061042", "", "", "arxiv.org/0704.0001">>,
      <<"doc-61043", "", "", "ARXIV.ORG/abs/0704.0002">>,
      <<"60989", "">> }

RECURSIVE SeqsUpTo(_, _)
SeqsUpTo(S, n) ==
    IF n = 0 THEN {<<>>}
    ELSE LET shorter == SeqsUpTo(S, n - 1)
         IN shorter \cup {Append(q, e) : q \in {r \in shorter : Len(r) = n - 1}, e \in S}

NoElements ==
    [rel_license |-> None, links |-> <<>>, history |-> None, og_url |-> None,
     title |-> None, authors |-> None, comments |-> None, subjects |-> None,
     jref |-> None, doi |-> None]

\* response.text of a 2xx response: empty, an abstract page, a page without
\* any of the elements the extractors look for
EmptyBody == NoElements @@ [empty |-> TRUE]
AbstractPage ==
    [NoElements EXCEPT
        !.rel_license = Some("http://creativecommons.org/licenses/by/4.0/"),
        !.links = <<"/abs/2301.12345v2", "/licenses/assumed-1991-2003/license.html">>,
        !.history = Some("[v1] Mon, 30 Jan 2023 [v2] Tue, 7 Feb 2023"),
        !.title = Some("Title:On Ledgers"),
        !.authors = Some(<<"A. Author", "B. Author">>),
        !.subjects = Some("Information Retrieval (cs.IR)")] @@ [empty |-> FALSE]
BarePage == [NoElements EXCEPT !.links = <<"/help">>] @@ [empty |-> FALSE]
Bodies == {EmptyBody, AbstractPage, BarePage}

\* outcomes of requests.get + raise_for_status
FetchResponses ==
    {[kind |-> k, body |-> EmptyBody] : k \in {"timeout", "connection", "bad_status"}}
        \cup {[kind |-> "ok", body |-> b] : b \in Bodies}

\* outcomes of save_results' file operations: all succeed, open() raises,
\* or a write raises after open() has created the file
SaveOutcomes == {"ok", "open_fails", "write_fails"}

(***************************************************************************)
(* load_documents_to_process                                               *)
(***************************************************************************)
Max(a, b) == IF a >= b THEN a ELSE b

\* list.sort(key=...) is stable: insert after the elements of equal key
RECURSIVE InsertByKey(_, _)
InsertByKey(sorted, d) ==
    IF sorted = <<>> THEN <<d>>
    ELSE IF d.numeric_id < Head(sorted).numeric_id THEN <<d>> \o sorted
    ELSE <<Head(sorted)>> \o InsertByKey(Tail(sorted), d)
RECURSIVE SortByNumericId(_)
SortByNumericId(docs) ==
    IF docs = <<>> THEN <<>>
    ELSE InsertByKey(SortByNumericId(SubSeq(docs, 1, Len(docs) - 1)), docs[Len(docs)])

RECURSIVE FilterRows(_, _, _)
FilterRows(rows, lo, hi) ==
    IF rows = <<>> THEN <<>>
    ELSE LET row == Head(rows)
             rest == FilterRows(Tail(rows), lo, hi)
         IN IF Len(row) <= Max(DOC_ID_COLUMN, ABSTRACT_URL_COLUMN) THEN rest
            ELSE LET doc_id == Strip(row[DOC_ID_COLUMN + 1])
                     abs_url == Strip(row[ABSTRACT_URL_COLUMN + 1])
                     numeric_id == extract_numeric_id(doc_id)
                 IN IF abs_url = "" THEN rest
                    ELSE IF numeric_id # None /\ lo <= numeric_id[1] /\ numeric_id[1] <= hi
                    THEN <<[doc_id |-> doc_id, raw_url |-> abs_url,
                            numeric_id |-> numeric_id[1]]>> \o rest
                    ELSE rest

load_documents_to_process(rows, lo, hi) == SortByNumericId(FilterRows(rows, lo, hi))

(***************************************************************************)
(* fetch_abstract_page, save_abstract_page, save_results                   *)
(***************************************************************************)
\* the body of a successful response; None when a RequestException is caught
fetch_abstract_page(response) ==
    IF response.kind = "ok" THEN Some(response.body) ELSE None

\* Python truthiness of an Optional[str] holding a response body
Truthy(html) == html # None /\ ~html[1].empty

UnsafeFilenameChars == {"<", ">", ":", "\"", "/", "\\", "|", "?", "*"}
RECURSIVE SafeFilename(_)
SafeFilename(doc_id) ==
    IF Len(doc_id) = 0 THEN doc_id
    ELSE (IF CharAt(doc_id, 1) \in UnsafeFilenameChars THEN "_" ELSE CharAt(doc_id, 1))
             \o SafeFilename(From(doc_id, 2))

\* the archive folder after save_abstract_page: the file is (over)written
\* when the write succeeds, the exception is swallowed when it does not
save_abstract_page(files, html, doc_id, writeOk) ==
    IF writeOk
    THEN {f \in files : f[1] # SafeFilename(doc_id) \o ".html"}
             \cup {<<SafeFilename(doc_id) \o ".html", html>>}
    ELSE files

\* csv.writer renders None as the empty field; license_url, the third
\* column, is the only Optional one
CsvRecord(row) == [k \in 1..Len(row) |->
                      IF k = 3 THEN (IF row[k] = None THEN "" ELSE row[k][1]) ELSE row[k]]
CsvRecords(rows) == [k \in 1..Len(rows) |-> CsvRecord(rows[k])]

\* mutant: the file is opened in mode 'w' and loses its earlier lines
save_results_truncating(file, rows) ==
    [exists |-> TRUE,
     lines |-> (IF file.exists THEN <<>> ELSE <<CSV_COLUMNS>>) \o CsvRecords(rows)]

\* mutant: the header is written by every call
save_results_header_always(file, rows) ==
    [exists |-> TRUE,
     lines |-> file.lines \o <<CSV_COLUMNS>> \o CsvRecords(rows)]

\* the ledger file after a save_results call whose file operations succeed
save_results(file, rows) ==
    [exists |-> TRUE,
     lines |-> file.lines \o (IF file.exists THEN <<>> ELSE <<CSV_COLUMNS>>)
                   \o CsvRecords(rows)]

\* the ledger file after a save_results call that raises
save_results_failed(file, outcome) ==
    IF outcome = "write_fails" THEN [file EXCEPT !.exists = TRUE] ELSE file

\* the modulo flush trigger of the loop
CheckpointDue(n, interval) == n % interval = 0

\* the inclusive identifier range of the r-th run: the configured range,
\* moved on by its width for each later run (resumption over disjoint ranges)
RangeOf(r) ==
    [lo |-> START_DOC_ID + (r - 1) * (END_DOC_ID - START_DOC_ID + 1),
     hi |-> END_DOC_ID + (r - 1) * (END_DOC_ID - START_DOC_ID + 1)]

(***************************************************************************)
(* State.                                                                  *)
(***************************************************************************)
VARIABLES
    source,               \* rows of the source list file
    readable,             \* whether the source list file can be opened
    CHECKPOINT_INTERVAL,  \* the configured checkpoint interval
    run,                  \* number of the current invocation of main()
    pc,                   \* position of the driver
    documents,            \* process_documents: loaded documents
    i,                    \* process_documents: loop index (from 1)
    abs_url,              \* process_documents: normalized URL of document i
    html_content,         \* process_documents: fetched body of document i
    results,              \* process_documents: the result buffer
    stats,                \* process_documents: processed / successful
    ledger,               \* the CSV ledger file: exists, lines
    archive,              \* files of the abstract-page folder
    exc,                  \* the exception that ended the run, "" if none
    log,                  \* history: the steps taken by all runs, in order
    ledgerAtStart,        \* history: number of ledger lines when the run began
    probe                 \* a single call of a helper: function, argument, result

vars == <<source, readable, CHECKPOINT_INTERVAL, run, pc, documents, i, abs_url,
          html_content, results, stats, ledger, archive, exc, log, ledgerAtStart,
          probe>>

config == <<source, readable, CHECKPOINT_INTERVAL, run>>
locals == <<documents, i, abs_url, html_content, results, stats>>

\* a step of the history: its kind, the document index (or run number, or
\* row count) it concerns, and the row or body it carries (None otherwise)
Event(e, n, v) == [e |-> e, n |-> n, v |-> v]

\* no helper has been called on its own
NoProbe == [fn |-> "", arg |-> None, ret |-> None]

Init ==
    /\ probe = NoProbe
    /\ source \in SeqsUpTo(SourceRows, MaxRows)
    /\ readable \in BOOLEAN
    /\ CHECKPOINT_INTERVAL \in 1..MaxInterval
    /\ run = 1
    /\ pc = "start"
    /\ documents = <<>>
    /\ i = 0
    /\ abs_url = None
    /\ html_content = None
    /\ results = <<>>
    /\ stats = [processed |-> 0, successful |-> 0]
    /\ ledger = [exists |-> FALSE, lines |-> <<>>]
    /\ archive = {}
    /\ exc = ""
    /\ log = <<Event("run", 1, None)>>
    /\ ledgerAtStart = 0

\* run() up to process_documents' loop: load the documents; an unreadable
\* source list raises out of open(), an empty list returns the zero stats
LoadDocuments ==
    /\ pc = "start"
    /\ IF ~readable
       THEN /\ pc' = "crashed"
            /\ exc' = "FileNotFoundError"
            /\ UNCHANGED documents
       ELSE /\ documents' = load_documents_to_process(source, RangeOf(run).lo, RangeOf(run).hi)
            /\ pc' = IF documents' = <<>> THEN "summary" ELSE "loop"
            /\ UNCHANGED exc
    /\ UNCHANGED <<probe, config, i, abs_url, html_content, results, stats, ledger, archive,
                   log, ledgerAtStart>>

\* loop head and URL normalization; a failed normalization buffers the empty
\* row and `continue`s straight to the next document
NextDocument ==
    /\ pc = "loop"
    /\ i < Len(documents)
    /\ i' = i + 1
    /\ abs_url' = normalize_arxiv_url(documents[i'].raw_url)
    /\ IF abs_url' = None
       THEN /\ results' = Append(results,
                                 _create_empty_result(documents[i'].doc_id, documents[i'].raw_url))
            /\ log' = log \o <<Event("start", i', None),
                               Event("empty_row", i', results'[Len(results')])>>
            /\ pc' = "loop"
       ELSE /\ results' = results
            /\ log' = Append(log, Event("start", i', None))
            /\ pc' = "fetch"
    /\ UNCHANGED <<probe, config, documents, html_content, stats, ledger, archive, exc, ledgerAtStart>>

\* mutant: a failed request is retried once
FetchPageRetrying ==
    /\ pc = "fetch"
    /\ \E response \in FetchResponses :
           /\ html_content' = fetch_abstract_page(response)
           /\ log' = Append(log, Event(IF response.kind = "ok" THEN "fetch_ok"
                                                                ELSE "fetch_failed",
                                       i, html_content'))
           /\ pc' = IF response.kind # "ok" /\ log[Len(log)].e # "fetch_failed"
                    THEN "fetch" ELSE "buffer"
    /\ UNCHANGED <<probe, config, documents, i, abs_url, results, stats, ledger, archive, exc,
                   ledgerAtStart>>

\* one requests.get for the document
FetchPage ==
    /\ pc = "fetch"
    /\ \E response \in FetchResponses :
           /\ html_content' = fetch_abstract_page(response)
           /\ log' = Append(log, Event(IF response.kind = "ok" THEN "fetch_ok"
                                                                ELSE "fetch_failed",
                                       i, html_content'))
    /\ pc' = "buffer"
    /\ UNCHANGED <<probe, config, documents, i, abs_url, results, stats, ledger, archive, exc,
                   ledgerAtStart>>

\* mutant: the row of a document is buffered only when its archive write
\* succeeded
BufferResultArchivedOnly ==
    /\ pc = "buffer"
    /\ IF Truthy(html_content)
       THEN \E writeOk \in BOOLEAN :
              /\ archive' = save_abstract_page(archive, html_content[1],
                                                documents[i].doc_id, writeOk)
              /\ results' = IF writeOk
                            THEN Append(results,
                                        create_result_row(documents[i].doc_id, abs_url[1],
                                                          extract_metadata(html_content[1])))
                            ELSE results
              /\ stats' = [stats EXCEPT !.successful = @ + 1]
              /\ log' = IF writeOk
                        THEN log \o <<Event("extract", i, None), Event("archive", i, None),
                                      Event("full_row", i, results'[Len(results')])>>
                        ELSE log \o <<Event("extract", i, None),
                                      Event("archive_failed", i, None)>>
       ELSE /\ results' = Append(results,
                                 _create_empty_result(documents[i].doc_id, abs_url[1]))
            /\ log' = Append(log, Event("empty_row", i, results'[Len(results')]))
            /\ UNCHANGED <<archive, stats>>
    /\ pc' = "count"
    /\ UNCHANGED <<probe, config, documents, i, abs_url, html_content, ledger, exc, ledgerAtStart>>

\* the branch on the fetched body: extraction, archive write, the full row
\* and the successful count, or the empty row
BufferResult ==
    /\ pc = "buffer"
    /\ IF Truthy(html_content)
       THEN \E writeOk \in BOOLEAN :
              /\ archive' = save_abstract_page(archive, html_content[1],
                                                documents[i].doc_id, writeOk)
              /\ results' = Append(results,
                                   create_result_row(documents[i].doc_id, abs_url[1],
                                                     extract_metadata(html_content[1])))
              /\ stats' = [stats EXCEPT !.successful = @ + 1]
              /\ log' = log \o <<Event("extract", i, None),
                                 Event(IF writeOk THEN "archive" ELSE "archive_failed",
                                       i, None),
                                 Event("full_row", i, results'[Len(results')])>>
       ELSE /\ results' = Append(results,
                                 _create_empty_result(documents[i].doc_id, abs_url[1]))
            /\ log' = Append(log, Event("empty_row", i, results'[Len(results')]))
            /\ UNCHANGED <<archive, stats>>
    /\ pc' = "count"
    /\ UNCHANGED <<probe, config, documents, i, abs_url, html_content, ledger, exc, ledgerAtStart>>

\* mutant: a document counts as processed only when its extraction succeeded
CountProcessedOnSuccess ==
    /\ pc = "count"
    /\ stats' = IF Truthy(html_content) THEN [stats EXCEPT !.processed = @ + 1] ELSE stats
    /\ pc' = "checkpoint"
    /\ UNCHANGED <<probe, config, documents, i, abs_url, html_content, results, ledger,
                   archive, exc, log, ledgerAtStart>>

\* stats["processed"] += 1, after either branch
CountProcessed ==
    /\ pc = "count"
    /\ stats' = [stats EXCEPT !.processed = @ + 1]
    /\ pc' = "checkpoint"
    /\ UNCHANGED <<probe, config, documents, i, abs_url, html_content, results, ledger,
                   archive, exc, log, ledgerAtStart>>

\* the periodic checkpoint: on a multiple of the interval the buffer is
\* appended to the ledger and cleared; an exception of save_results is not
\* caught anywhere and ends the run
Checkpoint ==
    /\ pc = "checkpoint"
    /\ IF CheckpointDue(i, CHECKPOINT_INTERVAL)
       THEN \E outcome \in SaveOutcomes :
              IF outcome = "ok"
              THEN /\ ledger' = save_results(ledger, results)
                   /\ results' = <<>>
                   /\ log' = Append(log, Event("save", Len(results), None))
                   /\ pc' = "sleep"
                   /\ UNCHANGED exc
              ELSE /\ ledger' = save_results_failed(ledger, outcome)
                   /\ log' = Append(log, Event("save_failed", Len(results), None))
                   /\ pc' = "crashed"
                   /\ exc' = "OSError"
                   /\ UNCHANGED results
       ELSE /\ pc' = "sleep"
            /\ UNCHANGED <<results, ledger, log, exc>>
    /\ UNCHANGED <<probe, config, documents, i, abs_url, html_content, stats, archive, ledgerAtStart>>

\* mutant: the delay is taken only in the iterations that wrote a checkpoint
SleepAtCheckpointOnly ==
    /\ pc = "sleep"
    /\ log' = IF CheckpointDue(i, CHECKPOINT_INTERVAL)
              THEN Append(log, Event("sleep", i, None)) ELSE log
    /\ pc' = "loop"
    /\ UNCHANGED <<probe, config, locals, ledger, archive, exc, ledgerAtStart>>

\* time.sleep(REQUEST_DELAY) at the end of the loop body
Sleep ==
    /\ pc = "sleep"
    /\ log' = Append(log, Event("sleep", i, None))
    /\ pc' = "loop"
    /\ UNCHANGED <<probe, config, locals, ledger, archive, exc, ledgerAtStart>>

\* after the loop: the remaining results are appended, the stats returned
FinalFlush ==
    /\ pc = "loop"
    /\ i = Len(documents)
    /\ IF results # <<>>
       THEN \E outcome \in SaveOutcomes :
              IF outcome = "ok"
              THEN /\ ledger' = save_results(ledger, results)
                   /\ log' = Append(log, Event("save", Len(results), None))
                   /\ pc' = "summary"
                   /\ UNCHANGED exc
              ELSE /\ ledger' = save_results_failed(ledger, outcome)
                   /\ log' = Append(log, Event("save_failed", Len(results), None))
                   /\ pc' = "crashed"
                   /\ exc' = "OSError"
       ELSE /\ pc' = "summary"
            /\ UNCHANGED <<ledger, log, exc>>
    /\ UNCHANGED <<probe, config, locals, archive, ledgerAtStart>>

\* run() after process_documents: the summary, whose success rate divides
\* by the processed count
ReportSummary ==
    /\ pc = "summary"
    /\ IF stats.processed = 0
       THEN pc' = "crashed" /\ exc' = "ZeroDivisionError"
       ELSE pc' = "done" /\ UNCHANGED exc
    /\ UNCHANGED <<probe, config, locals, ledger, archive, log, ledgerAtStart>>

\* main() is invoked again, over the next identifier range, against the
\* same source list, ledger and archive folder
Rerun ==
    /\ pc \in {"done", "crashed"}
    /\ run < MaxRuns
    /\ run' = run + 1
    /\ pc' = "start"
    /\ documents' = <<>>
    /\ i' = 0
    /\ abs_url' = None
    /\ html_content' = None
    /\ results' = <<>>
    /\ stats' = [processed |-> 0, successful |-> 0]
    /\ exc' = ""
    /\ log' = Append(log, Event("run", run', None))
    /\ ledgerAtStart' = Len(ledger.lines)
    /\ UNCHANGED <<probe, source, readable, CHECKPOINT_INTERVAL, ledger, archive>>

Next ==
    \/ LoadDocuments
    \/ NextDocument
    \/ FetchPage
    \/ BufferResult
    \/ CountProcessed
    \/ Checkpoint
    \/ Sleep
    \/ FinalFlush
    \/ ReportSummary
    \/ Rerun

Spec == Init /\ [][Next]_vars

(***************************************************************************)
(* The helpers called on their own: one call of normalize_arxiv_url,       *)
(* map_license or load_documents_to_process on an input of a bounded set,  *)
(* with the extractor otherwise idle.                                      *)
(***************************************************************************)
UpperChar(c) ==
    IF \E k \in 1..26 : CharAt(LowerAlphabet, k) = c
    THEN CharAt(UpperAlphabet, CHOOSE k \in 1..26 : CharAt(LowerAlphabet, k) = c)
    ELSE c
RECURSIVE ToUpper(_)
ToUpper(s) == IF Len(s) = 0 THEN s ELSE UpperChar(CharAt(s, 1)) \o ToUpper(From(s, 2))

\* raw reference URLs, each also in other letter case and with whitespace around
BaseUrls ==
    {"https://arxiv.org/abs/2301.12345v2",
     "https://arxiv.org/pdf/2301.12345v2.pdf",
     "http://arXiv.org/abs/0704.0002",
     "arxiv.org/0704.0001",
     "arxiv.org/abs/hep-th/9901001",
     "http://example.org/paper.html",
     "https://arxiv.org/abs/",
     ""}
UrlInputs ==
    UNION {{u, ToLower(u), ToUpper(u), " " \o u, u \o " \n", "\t" \o ToUpper(u) \o " "}
               : u \in BaseUrls}

\* license URLs as the extractor can hand them over, None included
LicenseInputs ==
    {None}
        \cup {Some(u) : u \in
              {"http://creativecommons.org/licenses/by/4.0/",
               "https://creativecommons.org/licenses/by-sa/4.0/",
               "http://creativecommons.org/licenses/by-nc-sa/4.0/",
               "http://creativecommons.org/licenses/by-nc-nd/4.0/",
               "http://arxiv.org/licenses/nonexclusive-distrib/1.0/",
               "https://arxiv.org/licenses/assumed-1991-2003/license.html",
               " HTTP://CreativeCommons.org/licenses/BY/4.0/legalcode ",
               "http://creativecommons.org/licenses/by-nc/4.0/",
               "http://creativecommons.org/licenses/by/3.0/",
               "http://creativecommons.org/publicdomain/zero/1.0/",
               "https://arxiv.org/licenses/",
               "http://creativecommons.org/licenses/by-sa/4.0/?v=creativecommons.org/licenses/by/4.0",
               "http://arxiv.org/licenses/assumed-1991-2003/?see=arxiv.org/licenses/nonexclusive-distrib/1.0",
               "  ",
               ""}}

\* source lists, with two different rows of the same numeric key among them
LoadRows == SourceRows \cup {<<"doc-60988", "", "", "arxiv.org/abs/0704.0003">>}
LoadInputs == SeqsUpTo(LoadRows, MaxRows)

PureInit ==
    /\ probe = NoProbe
    /\ source = <<>>
    /\ readable = TRUE
    /\ CHECKPOINT_INTERVAL = 1
    /\ run = 1
    /\ pc = "start"
    /\ documents = <<>>
    /\ i = 0
    /\ abs_url = None
    /\ html_content = None
    /\ results = <<>>
    /\ stats = [processed |-> 0, successful |-> 0]
    /\ ledger = [exists |-> FALSE, lines |-> <<>>]
    /\ archive = {}
    /\ exc = ""
    /\ log = <<Event("run", 1, None)>>
    /\ ledgerAtStart = 0

CallNormalize ==
    /\ probe = NoProbe
    /\ \E url \in UrlInputs :
           probe' = [fn |-> "normalize_arxiv_url", arg |-> url,
                     ret |-> normalize_arxiv_url(url)]
    /\ UNCHANGED <<config, locals, pc, ledger, archive, exc, log, ledgerAtStart>>

CallMapLicense ==
    /\ probe = NoProbe
    /\ \E license_url \in LicenseInputs :
           probe' = [fn |-> "map_license", arg |-> license_url,
                     ret |-> map_license(license_url)]
    /\ UNCHANGED <<config, locals, pc, ledger, archive, exc, log, ledgerAtStart>>

CallLoad ==
    /\ probe = NoProbe
    /\ \E rows \in LoadInputs, r \in 1..MaxRuns :
           probe' = [fn |-> "load_documents_to_process",
                     arg |-> [rows |-> rows, lo |-> RangeOf(r).lo, hi |-> RangeOf(r).hi],
                     ret |-> load_documents_to_process(rows, RangeOf(r).lo, RangeOf(r).hi)]
    /\ UNCHANGED <<config, locals, pc, ledger, archive, exc, log, ledgerAtStart>>

PureNext ==
    \/ CallNormalize
    \/ CallMapLicense
    \/ CallLoad

PureSpec == PureInit /\ [][PureNext]_vars

(***************************************************************************)
(* Vocabulary of the properties.                                           *)
(***************************************************************************)
\* the part of the history that belongs to the current run
RunLog ==
    LET k == CHOOSE m \in 1..Len(log) :
                 /\ log[m].e = "run"
                 /\ \A j \in (m + 1)..Len(log) : log[j].e # "run"
    IN SubSeq(log, k + 1, Len(log))

\* positions of the steps of the given kinds, and of those concerning document n
At(lg, kinds) == {k \in 1..Len(lg) : lg[k].e \in kinds}
AtDoc(lg, kinds, n) == {k \in At(lg, kinds) : lg[k].n = n}

FetchKinds == {"fetch_ok", "fetch_failed"}
RowKinds == {"empty_row", "full_row"}

RECURSIVE RowsSaved(_)
RowsSaved(lg) ==
    IF lg = <<>> THEN 0
    ELSE (IF Head(lg).e = "save" THEN Head(lg).n ELSE 0) + RowsSaved(Tail(lg))

IsPrefix(a, b) == Len(a) <= Len(b) /\ SubSeq(b, 1, Len(a)) = a
Ceil(n, k) == (n + k - 1) \div k

DataLines(lines) == SelectSeq(lines, LAMBDA l : l # CSV_COLUMNS)
\* the data rows the ledger has gained since the current run began
GainedRows == DataLines(SubSeq(ledger.lines, ledgerAtStart + 1, Len(ledger.lines)))

\* process_documents has returned its stats to run()
Completed == pc \in {"summary", "done"} \/ (pc = "crashed" /\ exc = "ZeroDivisionError")

NormalizationFails(n) == normalize_arxiv_url(documents[n].raw_url) = None
FetchFailed(n) == AtDoc(RunLog, {"fetch_failed"}, n) # {}
ArchiveFailed(n) == AtDoc(RunLog, {"archive_failed"}, n) # {}

AllEmpty(row) ==
    /\ row[3] = None
    /\ row[4] = "Unknown"
    /\ \A k \in 5..11 : row[k] = ""

\* the one row buffered for document n (when exactly one was)
RowOf(n) == RunLog[CHOOSE k \in AtDoc(RunLog, RowKinds, n) : TRUE].v

(***************************************************************************)
(* C1: when process_documents has completed for N loaded documents, the    *)
(* ledger has gained exactly N data rows in that run, the j-th of them the *)
(* row of the j-th loaded document, for every mix of outcomes and every    *)
(* checkpoint interval.                                                    *)
(***************************************************************************)
C1_LedgerGainsOneRowPerDocument ==
    Completed =>
        /\ Len(GainedRows) = Len(documents)
        /\ \A n \in 1..Len(documents) :
               /\ Cardinality(AtDoc(RunLog, RowKinds, n)) = 1
               /\ GainedRows[n] = CsvRecord(RowOf(n))
               /\ GainedRows[n][1] = documents[n].doc_id

C1_Witness ==
    /\ pc = "done"
    /\ Len(documents) = 2
    /\ NormalizationFails(1)
    /\ At(RunLog, {"fetch_failed"}) # {}

(***************************************************************************)
(* C2: for a completed run over N >= 1 documents with interval K the       *)
(* number of save_results appends is ceil(N/K), also when documents fail   *)
(* URL normalization.                                                      *)
(***************************************************************************)
C2_FlushCountIsCeil ==
    (Completed /\ documents # <<>>) =>
        Cardinality(At(RunLog, {"save"})) = Ceil(Len(documents), CHECKPOINT_INTERVAL)

(***************************************************************************)
(* C3: the result buffer never holds more than CHECKPOINT_INTERVAL rows    *)
(* that are not yet in the ledger.                                         *)
(***************************************************************************)
C3_BufferAtMostInterval == Len(results) <= CHECKPOINT_INTERVAL

(***************************************************************************)
(* C4: REQUEST_DELAY is observed once after every document before the next *)
(* one is started: when document n is started, n - 1 sleeps have been      *)
(* taken in the run, whatever the outcomes of the earlier documents.       *)
(***************************************************************************)
C4_DelayAfterEveryDocument ==
    \A k \in At(RunLog, {"start"}) :
        Cardinality({j \in At(RunLog, {"sleep"}) : j < k}) = RunLog[k].n - 1

(***************************************************************************)
(* C5: after any sequence of save_results calls that returned, in one run  *)
(* or across runs over disjoint identifier ranges, the ledger holds the    *)
(* header exactly once, as its first line, and as many data rows as the    *)
(* calls appended in total; no step of the program rewrites or removes a   *)
(* line that was written earlier.                                          *)
(***************************************************************************)
C5_LedgerShape ==
    At(log, {"save_failed"}) = {} =>
        /\ ledger.exists <=> At(log, {"save"}) # {}
        /\ ledger.exists =>
               /\ ledger.lines[1] = CSV_COLUMNS
               /\ Len(DataLines(ledger.lines)) = Len(ledger.lines) - 1
               /\ Len(ledger.lines) - 1 = RowsSaved(log)

C6_NormalizationFailureRow ==
    \A n \in 1..i :
        NormalizationFails(n) =>
            /\ AtDoc(RunLog, FetchKinds \cup {"extract", "archive", "archive_failed"}, n) = {}
            /\ Cardinality(AtDoc(RunLog, RowKinds, n)) = 1
            /\ AllEmpty(RowOf(n))
            /\ RowOf(n)[1] = documents[n].doc_id

C6_Witness ==
    /\ pc = "done"
    /\ \E n \in 1..i : NormalizationFails(n)
    /\ \E n \in 1..i : ~NormalizationFails(n)

(***************************************************************************)
(* C7: for a document whose fetch fails exactly one request is made (no    *)
(* retry), exactly one all-empty row is buffered for it, and the failure   *)
(* does not end the run: the driver goes on to the checkpoint test, the    *)
(* delay and the next document, and only a failing ledger append can stop  *)
(* the run while that document is the current one.                         *)
(***************************************************************************)
C7_FetchFailureRow ==
    \A n \in 1..i :
        FetchFailed(n) =>
            /\ Cardinality(AtDoc(RunLog, FetchKinds, n)) = 1
            /\ AtDoc(RunLog, {"extract", "archive", "archive_failed"}, n) = {}
            /\ (n = i /\ pc = "buffer") => AtDoc(RunLog, RowKinds, n) = {}
            /\ (n < i \/ pc # "buffer") =>
                   /\ Cardinality(AtDoc(RunLog, RowKinds, n)) = 1
                   /\ AllEmpty(RowOf(n))
                   /\ RowOf(n)[1] = documents[n].doc_id
            /\ (n = i /\ pc = "crashed") => RunLog[Len(RunLog)].e = "save_failed"
            /\ (n < i) => AtDoc(RunLog, {"start"}, n + 1) # {}

C7_Witness ==
    /\ pc = "done"
    /\ Len(documents) = 2
    /\ FetchFailed(1)
    /\ At(RunLog, {"full_row"}) # {}

(***************************************************************************)
(* C8: when the archive write of a fetched document fails, the full row of *)
(* that document (built from the extracted metadata of the fetched body)   *)
(* is still buffered, it is in the ledger once process_documents has       *)
(* completed, and the failure does not end the run.                        *)
(***************************************************************************)
C8_ArchiveFailureKeepsRow ==
    \A n \in 1..i :
        ArchiveFailed(n) =>
            /\ Cardinality(AtDoc(RunLog, RowKinds, n)) = 1
            /\ AtDoc(RunLog, {"full_row"}, n) # {}
            /\ \E k \in AtDoc(RunLog, {"fetch_ok"}, n) :
                   RowOf(n) = create_result_row(documents[n].doc_id,
                                                normalize_arxiv_url(documents[n].raw_url)[1],
                                                extract_metadata(RunLog[k].v[1]))
            /\ (n = i /\ pc = "crashed") => RunLog[Len(RunLog)].e = "save_failed"
            /\ (n < i) => AtDoc(RunLog, {"start"}, n + 1) # {}
            /\ Completed => GainedRows[n] = CsvRecord(RowOf(n))

C8_Witness ==
    /\ pc = "done"
    /\ Len(documents) = 2
    /\ ArchiveFailed(1)
    /\ archive = {}
    /\ Len(GainedRows) = 2

(***************************************************************************)
(* C9: a ledger append that fails, at a checkpoint or at the final flush,  *)
(* is handled locally and does not abort the run.                          *)
(***************************************************************************)
C9_SaveFailureDoesNotAbort ==
    At(RunLog, {"save_failed"}) # {} => pc # "crashed"

(***************************************************************************)
(* C10: for a non-empty loaded document list run() reaches normal          *)
(* completion whatever the per-document outcomes are: with no failure      *)
(* other than per-document ones, the run never ends in an exception.       *)
(***************************************************************************)
C10_RunCompletesNormally ==
    (documents # <<>> /\ At(RunLog, {"save_failed"}) = {}) => pc # "crashed"

(***************************************************************************)
(* C11: when the source list is unreadable or yields no in-range document, *)
(* the run ends before any network request and any ledger write, and it    *)
(* ends normally, reporting processed = 0 and successful = 0, not in an    *)
(* unhandled exception.                                                    *)
(***************************************************************************)
C11_EmptySourceReportsZero ==
    (pc \in {"done", "crashed"} /\ documents = <<>>) =>
        /\ At(RunLog, FetchKinds \cup {"save", "save_failed"}) = {}
        /\ ledger.lines = SubSeq(ledger.lines, 1, ledgerAtStart)
        /\ stats = [processed |-> 0, successful |-> 0]
        /\ pc = "done"

(***************************************************************************)
(* C12: load_documents_to_process returns only documents whose numeric key *)
(* lies in the inclusive range, in ascending key order, and returns the    *)
(* same list for every permutation of the source rows, rows of equal       *)
(* numeric key included.                                                   *)
(***************************************************************************)
Permuted(rows) ==
    {[k \in 1..Len(rows) |-> rows[f[k]]] : f \in Permutations(1..Len(rows))}

C12_LoadOrderIndependentOfFileOrder ==
    probe.fn = "load_documents_to_process" =>
        /\ \A k \in 1..Len(probe.ret) :
               probe.arg.lo <= probe.ret[k].numeric_id /\ probe.ret[k].numeric_id <= probe.arg.hi
        /\ \A k \in 1..(Len(probe.ret) - 1) :
               probe.ret[k].numeric_id <= probe.ret[k + 1].numeric_id
        /\ \A rows \in Permuted(probe.arg.rows) :
               load_documents_to_process(rows, probe.arg.lo, probe.arg.hi) = probe.ret

(***************************************************************************)
(* C13: map_license returns "Unknown" for an absent (None or empty)        *)
(* license URL; otherwise the name of the first table entry, in            *)
(* declaration order, whose substring occurs in the lower-cased, trimmed   *)
(* URL, so that a URL containing "creativecommons.org/licenses/by/4.0"     *)
(* gives "CC BY 4.0"; and "Other/Unmapped" when no entry matches.          *)
(***************************************************************************)
Occurs(k, url) == Contains(Strip(ToLower(url)), LICENSE_MAPPINGS[k][1])

C13_MapLicenseFirstMatch ==
    probe.fn = "map_license" =>
        IF probe.arg = None \/ probe.arg = Some("")
        THEN probe.ret = "Unknown"
        ELSE /\ \A k \in 1..Len(LICENSE_MAPPINGS) :
                    (Occurs(k, probe.arg[1]) /\ \A j \in 1..(k - 1) : ~Occurs(j, probe.arg[1]))
                        => probe.ret = LICENSE_MAPPINGS[k][2]
             /\ (\A k \in 1..Len(LICENSE_MAPPINGS) : ~Occurs(k, probe.arg[1]))
                    => probe.ret = "Other/Unmapped"
             /\ Contains(ToLower(probe.arg[1]), "creativecommons.org/licenses/by/4.0")
                    => probe.ret = "CC BY 4.0"

C13_Witness ==
    /\ probe.fn = "map_license"
    /\ probe.arg # None
    /\ Cardinality({k \in 1..Len(LICENSE_MAPPINGS) : Occurs(k, probe.arg[1])}) = 2
    /\ probe.ret = "arXiv Non-exclusive"

(***************************************************************************)
(* C14: normalize_arxiv_url is case- and whitespace-insensitive: two raw   *)
(* URLs that differ only in letter case or in surrounding whitespace       *)
(* normalize to the same result.                                           *)
(***************************************************************************)
SameUpToCaseAndSpace(a, b) == ToLower(Strip(a)) = ToLower(Strip(b))

C14_NormalizeCaseWhitespaceInsensitive ==
    probe.fn = "normalize_arxiv_url" =>
        \A url \in UrlInputs :
            SameUpToCaseAndSpace(url, probe.arg) => normalize_arxiv_url(url) = probe.ret

(***************************************************************************)
(* C15: for a document whose URL normalizes and whose fetch returns a body *)
(* (an empty body included), the body is handed to the archive write and   *)
(* the row buffered is the full row built from the extracted metadata and  *)
(* the classified license name, not the row of a failure.                  *)
(***************************************************************************)
C15_FetchedBodyGivesFullRow ==
    \A n \in 1..i :
        \A k \in AtDoc(RunLog, {"fetch_ok"}, n) :
            AtDoc(RunLog, RowKinds, n) # {} =>
                /\ AtDoc(RunLog, {"archive", "archive_failed"}, n) # {}
                /\ AtDoc(RunLog, {"empty_row"}, n) = {}
                /\ RowOf(n) = create_result_row(documents[n].doc_id,
                                                normalize_arxiv_url(documents[n].raw_url)[1],
                                                extract_metadata(RunLog[k].v[1]))

(***************************************************************************)
(* C16 as stated: at every point of process_documents                      *)
(* 0 <= successful <= processed <= rows buffered so far, processed is the  *)
(* number of documents whose URL normalized (for which a fetch was made),   *)
(* each counted when its iteration ends, and successful the number of      *)
(* documents with a full row.                                              *)
(***************************************************************************)
CountersExact ==
    /\ 0 <= stats.successful
    /\ stats.successful <= stats.processed
    /\ stats.processed <= Cardinality(At(RunLog, RowKinds))
    /\ stats.processed =
           Cardinality({n \in 1..i : /\ ~NormalizationFails(n)
                                     /\ AtDoc(RunLog, FetchKinds, n) # {}
                                     /\ (n < i \/ pc \notin {"buffer", "count"})})
    /\ stats.successful = Cardinality(At(RunLog, {"full_row"}))

C16_CountersAtEveryPoint == CountersExact

(***************************************************************************)
(* C16 as amended: the relations hold at every point outside the span from *)
(* the buffering of a document's row to its processed increment; inside    *)
(* that span successful is still at least 0 and at most processed + 1, and *)
(* processed is still at most the number of rows buffered.                 *)
(***************************************************************************)
C16_CountersAtIterationBoundaries ==
    /\ pc # "count" => CountersExact
    /\ 0 <= stats.successful
    /\ stats.successful <= stats.processed + 1
    /\ stats.processed <= Cardinality(At(RunLog, RowKinds))

C16_Witness ==
    /\ pc = "done"
    /\ stats = [processed |-> 2, successful |-> 1]
    /\ At(RunLog, {"fetch_failed"}) # {}

(***************************************************************************)
(* C17: between any two consecutive fetches of a run a REQUEST_DELAY sleep *)
(* is taken, and when a fetch is made every earlier document already has   *)
(* its row in the buffer or the ledger (fetches are sequential and paced). *)
(***************************************************************************)
C17_FetchesSequentialAndPaced ==
    \A k \in At(RunLog, FetchKinds) :
        /\ \A n \in 1..(RunLog[k].n - 1) :
               \E r \in AtDoc(RunLog, RowKinds, n) : r < k
        /\ \A j \in At(RunLog, FetchKinds) :
               j < k =>
                   /\ RunLog[j].n < RunLog[k].n
                   /\ \E s \in At(RunLog, {"sleep"}) : j < s /\ s < k

C17_Witness ==
    /\ pc = "done"
    /\ CHECKPOINT_INTERVAL = 2
    /\ Cardinality(At(RunLog, FetchKinds)) = 2

====
